---- MODULE Spec2Model ----
(***************************************************************************)
(* Model of the RegulatoryAgent of ai-agents/agents/regulatory_agent.py:   *)
(* the three tool implementations (_check_jurisdiction, _generate_report,  *)
(* _validate_schema), the tool dispatcher and process_trade_for_reporting  *)
(* with its rule-based fallback.                                           *)
(*                                                                         *)
(* Python strings that the code slices, concatenates or searches are       *)
(* sequences of one-character strings.  Dictionary keys are TLA+ strings   *)
(* and dictionaries are functions on their key set.  Dictionary values are *)
(* tagged records so that values of different Python types stay distinct.  *)
(***************************************************************************)
EXTENDS Integers, Sequences, FiniteSets, TLC

\* ------------------------------------------------------------------ bounds
MaxJurLen == 3
MaxUtiLen == 9
MaxTime == 2
MaxParts == 1

\* ------------------------------------------------------- string literals
S_US == <<"U", "S">>
S_EU == <<"E", "U">>
S_AU == <<"A", "U">>
S_SG == <<"S", "G">>
S_EU_GB == <<"E", "U", "_", "G", "B">>
S_GB_EU == <<"G", "B", "_", "E", "U">>
S_XX == <<"X", "X">>
S_YY == <<"Y", "Y">>
S_USA == <<"U", "S", "A">>
S_AUS == <<"A", "U", "S">>
S_eu == <<"e", "u">>
S_Empty == << >>

CFTC_PART_43 == <<"C", "F", "T", "C", "_", "P", "A", "R", "T", "_", "4", "3">>
CFTC_PART_45 == <<"C", "F", "T", "C", "_", "P", "A", "R", "T", "_", "4", "5">>
EMIR == <<"E", "M", "I", "R">>
MIFIR == <<"M", "I", "F", "I", "R">>
ASIC == <<"A", "S", "I", "C">>
MAS == <<"M", "A", "S">>
S_UNKNOWN_REGIME == <<"S", "E", "C">>

EquityOption == <<"E", "q", "u", "i", "t", "y", "O", "p", "t", "i", "o", "n">>
CreditDefaultSwap == <<"C", "r", "e", "d", "i", "t", "D", "e", "f", "a", "u", "l", "t", "S", "w", "a", "p">>
InterestRateSwap == <<"I", "n", "t", "e", "r", "e", "s", "t", "R", "a", "t", "e", "S", "w", "a", "p">>

S_RPT == <<"R", "P", "T", "-">>
S_Dash == <<"-">>
S_UPI == <<"U", "P", "I", "-">>
S_None == <<"N", "o", "n", "e">>
S_NA == <<"N", "/", "A">>
S_Uncollateralized == <<"U", "n", "c", "o", "l", "l", "a", "t", "e", "r", "a", "l", "i", "z", "e", "d">>
S_UTI_UNKNOWN == <<"U", "T", "I", "-", "U", "N", "K", "N", "O", "W", "N">>
S_SampleUTI == <<"U", "T", "I", "-", "1", "2", "3", "4", "5", "6", "7", "8", "9">>
S_InterestRate == <<"I", "n", "t", "e", "r", "e", "s", "t", "R", "a", "t", "e">>
S_USD == <<"U", "S", "D">>
S_BuyerLEI == <<"1", "2", "3", "4">>
S_SellerLEI == <<"F", "E", "D", "C">>

\* ------------------------------------------------------- Python values
\* A Python value held in a dictionary: str, None, bool, number.
Str(s) == [str |-> s]
None == [none |-> TRUE]
Bool(b) == [bool |-> b]
Num(n) == [num |-> n]
Float(n) == [float |-> n]

IsStr(v) == DOMAIN v = {"str"}

\* str(v) as used by an f-string replacement field.
Format(v) ==
    IF IsStr(v) THEN v.str
    ELSE IF v = None THEN S_None
    ELSE <<"?">>

\* {}
EmptyDict == [f \in {} |-> None]

\* d.get(k, default)
Get(d, k, default) == IF k \in DOMAIN d THEN d[k] ELSE default

\* s[:n]
Take(s, n) == SubSeq(s, 1, IF Len(s) < n THEN Len(s) ELSE n)

\* sub in s
Contains(sub, s) ==
    \E i \in 0..(Len(s) - Len(sub)) : SubSeq(s, i + 1, i + Len(sub)) = sub

\* datetime.now().isoformat() and datetime.now().date().isoformat(), for a
\* clock that counts ticks; TicksPerDay ticks make a calendar day.
TicksPerDay == 2
Digit(n) == <<"0", "1", "2", "3", "4", "5", "6", "7", "8", "9">>[(n % 10) + 1]
DateIso(t) == <<"D", Digit(t \div TicksPerDay)>>
DateTimeIso(t) == DateIso(t) \o <<"T", Digit(t % TicksPerDay)>>

\* ------------------------------------------------- _check_jurisdiction
S_BasedOn == <<"B", "a", "s", "e", "d", " ", "o", "n", " ">>
S_Slash == <<"/">>

MifirProducts == {EquityOption, CreditDefaultSwap}

\* Variant: the EU rule tests equality with "EU" instead of containment.
check_jurisdiction_eu_equal(buyer_jurisdiction, seller_jurisdiction, product_type, trade_currency) ==
    LET us == IF buyer_jurisdiction = S_US \/ seller_jurisdiction = S_US
              THEN <<CFTC_PART_43, CFTC_PART_45>> ELSE << >>
        eu == IF buyer_jurisdiction = S_EU \/ seller_jurisdiction = S_EU
              THEN <<EMIR>> \o (IF product_type \in MifirProducts THEN <<MIFIR>> ELSE << >>)
              ELSE << >>
        au == IF buyer_jurisdiction = S_AU \/ seller_jurisdiction = S_AU
              THEN <<ASIC>> ELSE << >>
        sg == IF buyer_jurisdiction = S_SG \/ seller_jurisdiction = S_SG
              THEN <<MAS>> ELSE << >>
    IN  [applicable_regimes |-> us \o eu \o au \o sg,
         confidence |-> "high",
         reasoning |-> S_BasedOn \o buyer_jurisdiction \o S_Slash \o seller_jurisdiction]

\* Variant: the US rule tests containment of "US" instead of equality.
check_jurisdiction_us_substring(buyer_jurisdiction, seller_jurisdiction, product_type, trade_currency) ==
    LET us == IF Contains(S_US, buyer_jurisdiction) \/ Contains(S_US, seller_jurisdiction)
              THEN <<CFTC_PART_43, CFTC_PART_45>> ELSE << >>
        eu == IF Contains(S_EU, buyer_jurisdiction) \/ Contains(S_EU, seller_jurisdiction)
              THEN <<EMIR>> \o (IF product_type \in MifirProducts THEN <<MIFIR>> ELSE << >>)
              ELSE << >>
        au == IF buyer_jurisdiction = S_AU \/ seller_jurisdiction = S_AU
              THEN <<ASIC>> ELSE << >>
        sg == IF buyer_jurisdiction = S_SG \/ seller_jurisdiction = S_SG
              THEN <<MAS>> ELSE << >>
    IN  [applicable_regimes |-> us \o eu \o au \o sg,
         confidence |-> "high",
         reasoning |-> S_BasedOn \o buyer_jurisdiction \o S_Slash \o seller_jurisdiction]

check_jurisdiction(buyer_jurisdiction, seller_jurisdiction, product_type, trade_currency) ==
    LET us == IF buyer_jurisdiction = S_US \/ seller_jurisdiction = S_US
              THEN <<CFTC_PART_43, CFTC_PART_45>> ELSE << >>
        eu == IF Contains(S_EU, buyer_jurisdiction) \/ Contains(S_EU, seller_jurisdiction)
              THEN <<EMIR>> \o (IF product_type \in MifirProducts THEN <<MIFIR>> ELSE << >>)
              ELSE << >>
        au == IF buyer_jurisdiction = S_AU \/ seller_jurisdiction = S_AU
              THEN <<ASIC>> ELSE << >>
        sg == IF buyer_jurisdiction = S_SG \/ seller_jurisdiction = S_SG
              THEN <<MAS>> ELSE << >>
    IN  [applicable_regimes |-> us \o eu \o au \o sg,
         confidence |-> "high",
         reasoning |-> S_BasedOn \o buyer_jurisdiction \o S_Slash \o seller_jurisdiction]

\* ---------------------------------------------------- _generate_report
\* Variant: the EMIR report takes its UTI from the trade, not the argument.
report_fields_trade_uti(regime, trade_data, uti, now) ==
    IF regime = CFTC_PART_43 THEN
        [UTI |-> Str(uti),
         ExecutionTimestamp |-> Str(DateTimeIso(now)),
         AssetClass |-> Get(trade_data, "asset_class", None),
         Price |-> Get(trade_data, "price", Str(S_NA)),
         Notional |-> Get(trade_data, "notional", None),
         ClearedIndicator |-> Bool(FALSE),
         BlockTradeIndicator |-> Bool(FALSE)]
    ELSE IF regime = CFTC_PART_45 THEN
        [UTI |-> Str(uti),
         UPI |-> Str(S_UPI \o Format(Get(trade_data, "product_type", None))),
         ReportingCounterpartyLEI |-> Get(trade_data, "buyer_lei", Str(S_Empty)),
         OtherCounterpartyLEI |-> Get(trade_data, "seller_lei", Str(S_Empty)),
         EffectiveDate |-> Str(DateIso(now)),
         CollateralizationType |-> Str(S_Uncollateralized)]
    ELSE IF regime = EMIR THEN
        [UTI |-> Get(trade_data, "uti", None),
         LEI_1 |-> Get(trade_data, "buyer_lei", Str(S_Empty)),
         LEI_2 |-> Get(trade_data, "seller_lei", Str(S_Empty)),
         TradeDate |-> Str(DateIso(now)),
         Notional |-> Get(trade_data, "notional", None),
         Valuation |-> Float(0),
         CollateralPosted |-> Float(0)]
    ELSE [f \in {} |-> None]

\* Variant: MIFIR has an enumerated field list of its own.
report_fields_mifir(regime, trade_data, uti, now) ==
    IF regime = CFTC_PART_43 THEN
        [UTI |-> Str(uti),
         ExecutionTimestamp |-> Str(DateTimeIso(now)),
         AssetClass |-> Get(trade_data, "asset_class", None),
         Price |-> Get(trade_data, "price", Str(S_NA)),
         Notional |-> Get(trade_data, "notional", None),
         ClearedIndicator |-> Bool(FALSE),
         BlockTradeIndicator |-> Bool(FALSE)]
    ELSE IF regime = CFTC_PART_45 THEN
        [UTI |-> Str(uti),
         UPI |-> Str(S_UPI \o Format(Get(trade_data, "product_type", None))),
         ReportingCounterpartyLEI |-> Get(trade_data, "buyer_lei", Str(S_Empty)),
         OtherCounterpartyLEI |-> Get(trade_data, "seller_lei", Str(S_Empty)),
         EffectiveDate |-> Str(DateIso(now)),
         CollateralizationType |-> Str(S_Uncollateralized)]
    ELSE IF regime = EMIR THEN
        [UTI |-> Str(uti),
         LEI_1 |-> Get(trade_data, "buyer_lei", Str(S_Empty)),
         LEI_2 |-> Get(trade_data, "seller_lei", Str(S_Empty)),
         TradeDate |-> Str(DateIso(now)),
         Notional |-> Get(trade_data, "notional", None),
         Valuation |-> Float(0),
         CollateralPosted |-> Float(0)]
    ELSE IF regime = MIFIR THEN
        [Price |-> Get(trade_data, "price", Str(S_NA)),
         BuyerLEI |-> Get(trade_data, "buyer_lei", Str(S_Empty)),
         SellerLEI |-> Get(trade_data, "seller_lei", Str(S_Empty))]
    ELSE [f \in {} |-> None]

report_fields(regime, trade_data, uti, now) ==
    IF regime = CFTC_PART_43 THEN
        [UTI |-> Str(uti),
         ExecutionTimestamp |-> Str(DateTimeIso(now)),
         AssetClass |-> Get(trade_data, "asset_class", None),
         Price |-> Get(trade_data, "price", Str(S_NA)),
         Notional |-> Get(trade_data, "notional", None),
         ClearedIndicator |-> Bool(FALSE),
         BlockTradeIndicator |-> Bool(FALSE)]
    ELSE IF regime = CFTC_PART_45 THEN
        [UTI |-> Str(uti),
         UPI |-> Str(S_UPI \o Format(Get(trade_data, "product_type", None))),
         ReportingCounterpartyLEI |-> Get(trade_data, "buyer_lei", Str(S_Empty)),
         OtherCounterpartyLEI |-> Get(trade_data, "seller_lei", Str(S_Empty)),
         EffectiveDate |-> Str(DateIso(now)),
         CollateralizationType |-> Str(S_Uncollateralized)]
    ELSE IF regime = EMIR THEN
        [UTI |-> Str(uti),
         LEI_1 |-> Get(trade_data, "buyer_lei", Str(S_Empty)),
         LEI_2 |-> Get(trade_data, "seller_lei", Str(S_Empty)),
         TradeDate |-> Str(DateIso(now)),
         Notional |-> Get(trade_data, "notional", None),
         Valuation |-> Float(0),
         CollateralPosted |-> Float(0)]
    ELSE [f \in {} |-> None]

\* Variant: the report identifier carries the whole UTI.
report_id_whole_uti(regime, uti) == S_RPT \o regime \o S_Dash \o uti

report_id(regime, uti) == S_RPT \o regime \o S_Dash \o Take(uti, 8)

\* Variant: the report identifier carries the time of generation.
generate_report_stamped(regime, trade_data, uti, now) ==
    [regime |-> regime,
     report_id |-> report_id(regime, uti) \o S_Dash \o DateTimeIso(now),
     fields |-> report_fields(regime, trade_data, uti, now),
     status |-> "generated"]

generate_report(regime, trade_data, uti, now) ==
    [regime |-> regime,
     report_id |-> report_id(regime, uti),
     fields |-> report_fields(regime, trade_data, uti, now),
     status |-> "generated"]

\* ---------------------------------------------------- _validate_schema
\* Variant: the required lists of the legend model.
required_fields_legend ==
    (CFTC_PART_43 :> <<"UTI", "ExecutionTimestamp", "Price", "Notional", "AssetClass",
                       "ClearedIndicator">>)
    @@ (CFTC_PART_45 :> <<"UTI", "UPI", "ReportingCounterpartyLEI", "OtherCounterpartyLEI",
                          "EffectiveDate", "MaturityDate">>)
    @@ (EMIR :> <<"UTI", "LEI_1", "LEI_2", "TradeDate", "Notional", "Valuation",
                  "CollateralPosted">>)

required_fields ==
    (CFTC_PART_43 :> <<"UTI", "ExecutionTimestamp", "AssetClass", "Notional">>)
    @@ (CFTC_PART_45 :> <<"UTI", "UPI", "ReportingCounterpartyLEI">>)
    @@ (EMIR :> <<"UTI", "LEI_1", "LEI_2">>)

\* Variant: only the first missing field is reported.
missing_fields_first(regime, report_data) ==
    LET required == Get(required_fields, regime, << >>)
        present == DOMAIN Get(report_data, "fields", EmptyDict)
        Absent(f) == f \notin present
    IN  Take(SelectSeq(required, Absent), 1)

missing_fields(regime, report_data) ==
    LET required == Get(required_fields, regime, << >>)
        present == DOMAIN Get(report_data, "fields", EmptyDict)
        Absent(f) == f \notin present
    IN  SelectSeq(required, Absent)

\* Variant: a report with a falsy (empty) fields mapping is not checked.
validate_schema_vacuous(regime, report_data) ==
    LET missing == IF DOMAIN Get(report_data, "fields", EmptyDict) = {}
                   THEN << >> ELSE missing_fields(regime, report_data)
    IN  [valid |-> Len(missing) = 0, missing_fields |-> missing, regime |-> regime]

validate_schema(regime, report_data) ==
    LET missing == missing_fields(regime, report_data)
    IN  [valid |-> Len(missing) = 0, missing_fields |-> missing, regime |-> regime]

\* ------------------------------------------------- _fallback_reporting
fallback_jurisdiction(trade_data) ==
    check_jurisdiction(Get(trade_data, "buyer_jurisdiction", Str(S_Empty)).str,
                       Get(trade_data, "seller_jurisdiction", Str(S_Empty)).str,
                       Get(trade_data, "product_type", Str(S_Empty)).str,
                       Get(trade_data, "currency", Str(S_Empty)).str)

\* Variant: a trade without uti is reported under the empty UTI.
fallback_uti_empty(trade_data) == Get(trade_data, "uti", Str(S_Empty)).str

fallback_uti(trade_data) == Get(trade_data, "uti", Str(S_UTI_UNKNOWN)).str

\* ------------------------------------------------- _execute_tool_calls
ToolNames == {"check_jurisdiction", "generate_regulatory_report", "validate_against_schema"}

\* Keyword parameters of the tool implementations: required and accepted.
tool_required(name) ==
    IF name = "check_jurisdiction"
    THEN {"buyer_jurisdiction", "seller_jurisdiction", "product_type"}
    ELSE IF name = "generate_regulatory_report" THEN {"regime", "trade_data", "uti"}
    ELSE {"regime", "report_data"}

tool_accepted(name) ==
    IF name = "check_jurisdiction"
    THEN tool_required(name) \cup {"trade_currency"}
    ELSE tool_required(name)

\* self._xxx(**dict(fc.args)) raises TypeError when a required keyword is
\* missing or an unexpected one is given.
tool_raises(part) ==
    /\ part.name \in ToolNames
    /\ ~ (tool_required(part.name) \subseteq DOMAIN part.args
          /\ DOMAIN part.args \subseteq tool_accepted(part.name))

tool_result(part, now) ==
    IF part.name = "check_jurisdiction"
    THEN check_jurisdiction(part.args.buyer_jurisdiction, part.args.seller_jurisdiction,
                            part.args.product_type,
                            Get(part.args, "trade_currency", S_Empty))
    ELSE IF part.name = "generate_regulatory_report"
    THEN generate_report(part.args.regime, part.args.trade_data, part.args.uti, now)
    ELSE validate_schema(part.args.regime, part.args.report_data)

\* ------------------------------------------------------------- inputs
StrsUpTo(alphabet, n) == UNION {[1..k -> alphabet] : k \in 0..n}

Jurisdictions ==
    {S_US, S_EU, S_AU, S_SG, S_EU_GB, S_GB_EU, S_XX, S_YY, S_USA, S_AUS, S_eu, S_Empty}
    \cup StrsUpTo({"E", "U"}, MaxJurLen)

Products == {EquityOption, CreditDefaultSwap, InterestRateSwap, S_Empty}

Currencies == {S_USD, S_Empty}

Regimes == {CFTC_PART_43, CFTC_PART_45, EMIR, MIFIR, ASIC, MAS, S_UNKNOWN_REGIME}

UTIs == {Take(S_SampleUTI, n) : n \in 0..MaxUtiLen} \cup {S_UTI_UNKNOWN}

\* The sample trade of the module's __main__, with the jurisdictions, the
\* product type and the UTI replaced and restricted to the keys in keys.
mk_trade(buyer_jurisdiction, seller_jurisdiction, product_type, uti, keys) ==
    LET full ==
            [product_type |-> Str(product_type),
             asset_class |-> Str(S_InterestRate),
             buyer_jurisdiction |-> Str(buyer_jurisdiction),
             buyer_lei |-> Str(S_BuyerLEI),
             seller_jurisdiction |-> Str(seller_jurisdiction),
             seller_lei |-> Str(S_SellerLEI),
             notional |-> Num(10000000),
             price |-> Num(101),
             currency |-> Str(S_USD),
             uti |-> Str(uti)]
    IN  [k \in keys |-> full[k]]

SampleKeys ==
    {"product_type", "asset_class", "buyer_jurisdiction", "buyer_lei",
     "seller_jurisdiction", "seller_lei", "notional", "currency", "uti"}

\* The keys of a TradeRequest of the API server: no uti, no LEIs.
RequestKeys ==
    {"product_type", "buyer_jurisdiction", "seller_jurisdiction", "notional", "currency"}

KeySets == {SampleKeys, SampleKeys \cup {"price"}, RequestKeys, {}}

TradeJurisdictions == {S_US, S_EU_GB, S_AU, S_SG, S_XX}
TradeProducts == {CreditDefaultSwap, InterestRateSwap}
TradeUTIs == {S_SampleUTI, Take(S_SampleUTI, 5)}

Trades ==
    {mk_trade(b, s, p, u, K) :
        b \in TradeJurisdictions, s \in TradeJurisdictions,
        p \in TradeProducts, u \in TradeUTIs, K \in KeySets}

\* Trades handed to _generate_report directly: it reads no jurisdiction.
ReportTrades ==
    {mk_trade(S_US, S_EU_GB, p, u, K) : p \in TradeProducts, u \in TradeUTIs, K \in KeySets}

\* Reports handed to _validate_schema: any set of field names, a report
\* without a "fields" key, and the reports _generate_report produces.
FieldNames ==
    {"UTI", "ExecutionTimestamp", "AssetClass", "Notional", "UPI",
     "ReportingCounterpartyLEI", "LEI_1", "LEI_2", "Price"}

ArbitraryReports ==
    {[fields |-> [f \in K |-> None]] : K \in SUBSET FieldNames}
    \cup {[status |-> "generated"]}

GeneratedReports(regime) ==
    {generate_report(regime, t, u, n) : t \in ReportTrades, u \in UTIs, n \in 0..MaxTime}

\* Parts of a model response.
SampleArgsTrade == mk_trade(S_US, S_EU_GB, CreditDefaultSwap, S_SampleUTI, SampleKeys)

ResponseParts ==
    {[kind |-> "text"],
     [kind |-> "function_call", name |-> "check_jurisdiction",
      args |-> [buyer_jurisdiction |-> S_US, seller_jurisdiction |-> S_EU_GB,
                product_type |-> CreditDefaultSwap]],
     [kind |-> "function_call", name |-> "generate_regulatory_report",
      args |-> [regime |-> EMIR, trade_data |-> SampleArgsTrade, uti |-> S_SampleUTI]],
     [kind |-> "function_call", name |-> "generate_regulatory_report",
      args |-> [regime |-> EMIR, trade_data |-> SampleArgsTrade]],
     [kind |-> "function_call", name |-> "validate_against_schema",
      args |-> [regime |-> EMIR, report_data |-> [fields |-> [UTI |-> None]]]],
     [kind |-> "function_call", name |-> "submit_report", args |-> EmptyDict]}

Responses ==
    {[candidates |-> << >>]}
    \cup {[candidates |-> <<parts>>] : parts \in UNION {[1..k -> ResponseParts] : k \in 0..MaxParts}}

\* ------------------------------------------- workflow and server sets
MaxClients == 3

Clients == 1..MaxClients

FunctionalAgents == {"regulatory", "confirmation", "settlement", "ledger", "margin"}

Nodes == {"trading", "processing"} \cup FunctionalAgents

\* -------------------------------------------------------------- state
VARIABLES
    pc,         \* "idle", "ai_call", "tools", "fallback", "done"
    now,        \* the clock read by datetime.now()
    call,       \* the invocation under way or just returned, with its arguments
    ret,        \* its return value once pc = "done"
    response,   \* the model response whose parts are being dispatched
    idx,        \* number of parts of the response already dispatched
    regimes,    \* jur["applicable_regimes"] of the fallback
    results,    \* the results / reports list being built
    ai,         \* outcome of generate_content: "none", "ok", "raised", "tool_raised"
    first       \* history: the first _generate_report call and its result

\* The workflow of workflows/multi_agent_workflow.py.
VARIABLES
    wf_pc,      \* execute(): "idle", "running" (inside ainvoke), "done"
    wstate,     \* the TradeWorkflowState the nodes share
    node,       \* per node: "pending", "running", "done"
    scheduled   \* the nodes the graph has triggered so far

\* The API server of api_server.py.
VARIABLES
    active_connections,  \* the module-level list of accepted WebSockets
    ws,         \* per client connection: "new", "open", "closed", "removed"
    bpc,        \* execute_workflow: "idle", "executing", "broadcasting", "done", "failed"
    iter,       \* index held by the list iterator of broadcast_update
    at_start,   \* history: the connections open when the broadcast started
    delivered   \* history: per connection, the broadcast messages it received

wfvars == <<wf_pc, wstate, node, scheduled>>
srvvars == <<active_connections, ws, bpc, iter, at_start, delivered>>
other == <<wfvars, srvvars>>

vars == <<pc, now, call, ret, response, idx, regimes, results, ai, first, wfvars, srvvars>>

Null == [null |-> TRUE]
NoCall == [op |-> "none"]

work == <<response, idx, regimes, results, ai>>

Init ==
    /\ pc = "idle"
    /\ now = 0
    /\ call = NoCall
    /\ ret = Null
    /\ response = Null
    /\ idx = 0
    /\ regimes = << >>
    /\ results = << >>
    /\ ai = "none"
    /\ first = Null
    /\ wf_pc = "idle"
    /\ wstate = Null
    /\ node = [n \in Nodes |-> "pending"]
    /\ scheduled = {}
    /\ active_connections = << >>
    /\ ws = [c \in Clients |-> "new"]
    /\ bpc = "idle"
    /\ iter = 0
    /\ at_start = {}
    /\ delivered = [c \in Clients |-> 0]

\* ------------------------------------------------------------ actions
\* Time passes between any two steps.
Tick ==
    /\ now < MaxTime
    /\ now' = now + 1
    /\ UNCHANGED <<pc, call, ret, work, first>>
    /\ UNCHANGED other

\* A direct invocation of a tool implementation: runs to completion.
CheckJurisdictionCall(buyer_jurisdiction, seller_jurisdiction, product_type, trade_currency) ==
    /\ pc = "idle"
    /\ call' = [op |-> "check_jurisdiction",
                buyer_jurisdiction |-> buyer_jurisdiction,
                seller_jurisdiction |-> seller_jurisdiction,
                product_type |-> product_type,
                trade_currency |-> trade_currency]
    /\ ret' = check_jurisdiction(buyer_jurisdiction, seller_jurisdiction,
                                 product_type, trade_currency)
    /\ pc' = "done"
    /\ UNCHANGED <<now, work>>

GenerateReportCall(regime, trade_data, uti) ==
    /\ pc = "idle"
    /\ call' = [op |-> "generate_report", regime |-> regime,
                trade_data |-> trade_data, uti |-> uti]
    /\ ret' = generate_report(regime, trade_data, uti, now)
    /\ pc' = "done"
    /\ UNCHANGED <<now, work>>

ValidateSchemaCall(regime, report_data) ==
    /\ pc = "idle"
    /\ call' = [op |-> "validate_schema", regime |-> regime, report_data |-> report_data]
    /\ ret' = validate_schema(regime, report_data)
    /\ pc' = "done"
    /\ UNCHANGED <<now, work>>

CheckJurisdiction ==
    /\ pc = "idle"
    /\ \E b \in Jurisdictions, s \in Jurisdictions, p \in Products, c \in Currencies :
          CheckJurisdictionCall(b, s, p, c)
    /\ UNCHANGED first
    /\ UNCHANGED other

GenerateReport ==
    /\ pc = "idle"
    /\ \E r \in Regimes, t \in ReportTrades, u \in UTIs : GenerateReportCall(r, t, u)
    /\ UNCHANGED first
    /\ UNCHANGED other

ValidateSchema ==
    /\ pc = "idle"
    /\ \E r \in Regimes :
          \E d \in ArbitraryReports \cup GeneratedReports(r) : ValidateSchemaCall(r, d)
    /\ UNCHANGED first
    /\ UNCHANGED other

\* process_trade_for_reporting: the prompt is built and generate_content is
\* called.
ProcessTrade ==
    /\ pc = "idle"
    /\ \E t \in Trades : call' = [op |-> "process_trade_for_reporting", trade_data |-> t]
    /\ pc' = "ai_call"
    /\ UNCHANGED <<now, ret, work, first>>
    /\ UNCHANGED other

\* generate_content returns a response; _execute_tool_calls starts.  A
\* response without candidates raises IndexError at the head of the loop,
\* which _execute_tool_calls catches: no part is dispatched.
AIResponds ==
    /\ pc = "ai_call"
    /\ \E r \in Responses : response' = r
    /\ idx' = 0
    /\ results' = << >>
    /\ ai' = "ok"
    /\ pc' = "tools"
    /\ UNCHANGED <<now, call, ret, regimes, first>>
    /\ UNCHANGED other

response_parts(r) == IF r.candidates = << >> THEN << >> ELSE r.candidates[1]

\* generate_content raises: the except clause runs _fallback_reporting,
\* which first resolves the jurisdictions.
AIFails ==
    /\ pc = "ai_call"
    /\ ai' = "raised"
    /\ regimes' = fallback_jurisdiction(call.trade_data).applicable_regimes
    /\ results' = << >>
    /\ pc' = "fallback"
    /\ UNCHANGED <<now, call, ret, response, idx, first>>
    /\ UNCHANGED other

\* One iteration of the loop of _execute_tool_calls.  A TypeError of the
\* dispatched call is not caught there: it reaches the except clause of
\* process_trade_for_reporting, which falls back.
ExecuteToolCall ==
    /\ pc = "tools"
    /\ idx < Len(response_parts(response))
    /\ LET part == response_parts(response)[idx + 1] IN
         IF part.kind = "function_call" /\ tool_raises(part)
         THEN /\ ai' = "tool_raised"
              /\ regimes' = fallback_jurisdiction(call.trade_data).applicable_regimes
              /\ results' = << >>
              /\ idx' = 0
              /\ pc' = "fallback"
         ELSE /\ results' = IF part.kind = "function_call" /\ part.name \in ToolNames
                            THEN Append(results, tool_result(part, now))
                            ELSE results
              /\ idx' = idx + 1
              /\ UNCHANGED <<ai, regimes, pc>>
    /\ UNCHANGED <<now, call, ret, response, first>>
    /\ UNCHANGED other

ToolsReturn ==
    /\ pc = "tools"
    /\ idx = Len(response_parts(response))
    /\ ret' = [reasoning |-> "response.text",
               reports_generated |-> results,
               timestamp |-> DateTimeIso(now)]
    /\ pc' = "done"
    /\ UNCHANGED <<now, call, work, first>>
    /\ UNCHANGED other

\* One iteration of the loop of _fallback_reporting.
FallbackStep ==
    /\ pc = "fallback"
    /\ Len(results) < Len(regimes)
    /\ results' = Append(results,
                         generate_report(regimes[Len(results) + 1], call.trade_data,
                                         fallback_uti(call.trade_data), now))
    /\ UNCHANGED <<pc, now, call, ret, response, idx, regimes, ai, first>>
    /\ UNCHANGED other

FallbackReturn ==
    /\ pc = "fallback"
    /\ Len(results) = Len(regimes)
    /\ ret' = [reasoning |-> "Rule-based fallback (AI unavailable)",
               reports_generated |-> results,
               timestamp |-> DateTimeIso(now)]
    /\ pc' = "done"
    /\ UNCHANGED <<now, call, work, first>>
    /\ UNCHANGED other

\* The caller takes the returned value; the agent keeps nothing of the call.
Return ==
    /\ pc = "done"
    /\ pc' = "idle"
    /\ call' = NoCall
    /\ ret' = Null
    /\ response' = Null
    /\ idx' = 0
    /\ regimes' = << >>
    /\ results' = << >>
    /\ ai' = "none"
    /\ UNCHANGED <<now, first>>
    /\ UNCHANGED other

Next ==
    \/ Tick
    \/ CheckJurisdiction
    \/ GenerateReport
    \/ ValidateSchema
    \/ ProcessTrade
    \/ AIResponds
    \/ AIFails
    \/ ExecuteToolCall
    \/ ToolsReturn
    \/ FallbackStep
    \/ FallbackReturn
    \/ Return

Spec == Init /\ [][Next]_vars

\* ------------------------------------------------------------- claims
Returned(op) == pc = "done" /\ call.op = op

RegimeOrder == <<CFTC_PART_43, CFTC_PART_45, EMIR, MIFIR, ASIC, MAS>>

HasEU(s) == \E i \in 1..(Len(s) - 1) : s[i] = "E" /\ s[i + 1] = "U"

C1_Applies(r, b, s, p) ==
    \/ r \in {CFTC_PART_43, CFTC_PART_45} /\ (b = S_US \/ s = S_US)
    \/ r = EMIR /\ (HasEU(b) \/ HasEU(s))
    \/ r = MIFIR /\ (HasEU(b) \/ HasEU(s)) /\ p \in {EquityOption, CreditDefaultSwap}
    \/ r = ASIC /\ (b = S_AU \/ s = S_AU)
    \/ r = MAS /\ (b = S_SG \/ s = S_SG)

C1_Expected(b, s, p) ==
    LET Applies(r) == C1_Applies(r, b, s, p) IN SelectSeq(RegimeOrder, Applies)

NoRepeat(seq) == \A i, j \in 1..Len(seq) : seq[i] = seq[j] => i = j

\* C1: _check_jurisdiction returns exactly the subsequence of
\* [CFTC_PART_43, CFTC_PART_45, EMIR, MIFIR, ASIC, MAS] selected by the
\* jurisdiction and product rules, in that order and without repetition;
\* (US, EU_GB, CreditDefaultSwap) gives the two US and the two EU
\* identifiers and (AU, SG) gives exactly ASIC and MAS.
C1_Regimes ==
    Returned("check_jurisdiction") =>
        /\ ret.applicable_regimes
             = C1_Expected(call.buyer_jurisdiction, call.seller_jurisdiction, call.product_type)
        /\ NoRepeat(ret.applicable_regimes)
        /\ (call.buyer_jurisdiction = S_US /\ call.seller_jurisdiction = S_EU_GB
            /\ call.product_type = CreditDefaultSwap)
           => ret.applicable_regimes = <<CFTC_PART_43, CFTC_PART_45, EMIR, MIFIR>>
        /\ (call.buyer_jurisdiction = S_AU /\ call.seller_jurisdiction = S_SG)
           => ret.applicable_regimes = <<ASIC, MAS>>

C1_Witness ==
    /\ Returned("check_jurisdiction")
    /\ call.buyer_jurisdiction = S_US
    /\ call.seller_jurisdiction = S_EU_GB
    /\ call.product_type = CreditDefaultSwap
    /\ Len(ret.applicable_regimes) = 4

\* C2: validating a report that _generate_report synthesized for the same
\* regime reports valid = true and no missing field.
C2_RoundTrip ==
    (Returned("validate_schema") /\ call.report_data \in GeneratedReports(call.regime))
        => (ret.valid = TRUE /\ ret.missing_fields = << >>)

C2_Witness ==
    /\ Returned("validate_schema")
    /\ call.regime = CFTC_PART_45
    /\ call.report_data \in GeneratedReports(CFTC_PART_45)
    /\ ret.valid = TRUE

KnownRegimes == {CFTC_PART_43, CFTC_PART_45, EMIR}

\* C3: for a known regime, the fields of the synthesized report contain the
\* key "UTI" whose value is the input UTI.
C3_UtiField ==
    (Returned("generate_report") /\ call.regime \in KnownRegimes)
        => ("UTI" \in DOMAIN ret.fields /\ ret.fields["UTI"] = Str(call.uti))

C3_Witness ==
    /\ Returned("generate_report")
    /\ call.regime = EMIR
    /\ "uti" \in DOMAIN call.trade_data
    /\ call.trade_data["uti"] # Str(call.uti)
    /\ ret.fields["UTI"] = Str(call.uti)

C4_Required(regime) ==
    IF regime = CFTC_PART_43 THEN <<"UTI", "ExecutionTimestamp", "AssetClass", "Notional">>
    ELSE IF regime = CFTC_PART_45 THEN <<"UTI", "UPI", "ReportingCounterpartyLEI">>
    ELSE IF regime = EMIR THEN <<"UTI", "LEI_1", "LEI_2">>
    ELSE << >>

Elems(seq) == {seq[i] : i \in 1..Len(seq)}

Position(seq, x) == CHOOSE i \in 1..Len(seq) : seq[i] = x

C4_Present(report_data) ==
    IF "fields" \in DOMAIN report_data THEN DOMAIN report_data["fields"] ELSE {}

\* C4: missing_fields is the regime's required-field list minus the field
\* names present in the report, kept in required-list order; valid is true
\* iff missing_fields is empty; a regime without a required-field list is
\* always valid with no missing field.
C4_SetDifference ==
    Returned("validate_schema") =>
        LET required == C4_Required(call.regime)
            missing == ret.missing_fields
        IN  /\ Elems(missing) = Elems(required) \ C4_Present(call.report_data)
            /\ \A i, j \in 1..Len(missing) :
                  i < j => Position(required, missing[i]) < Position(required, missing[j])
            /\ ret.valid = (missing = << >>)
            /\ call.regime \notin KnownRegimes => (ret.valid = TRUE /\ missing = << >>)

C4_Witness ==
    /\ Returned("validate_schema")
    /\ call.regime = CFTC_PART_43
    /\ C4_Present(call.report_data) = {"ExecutionTimestamp", "Price"}
    /\ ret.missing_fields = <<"UTI", "AssetClass", "Notional">>
    /\ ret.valid = FALSE

\* C5: an empty field mapping validated against a configured regime has all
\* of the regime's required fields missing and valid = false.
C5_EmptyMapping ==
    (/\ Returned("validate_schema")
     /\ call.regime \in KnownRegimes
     /\ "fields" \in DOMAIN call.report_data
     /\ DOMAIN call.report_data["fields"] = {})
        => (ret.missing_fields = C4_Required(call.regime) /\ ret.valid = FALSE)

C5_Witness ==
    /\ Returned("validate_schema")
    /\ call.regime = EMIR
    /\ "fields" \in DOMAIN call.report_data
    /\ DOMAIN call.report_data["fields"] = {}
    /\ Len(ret.missing_fields) = 3

C6_Unmatched(j) == j \notin {S_US, S_AU, S_SG} /\ ~ HasEU(j)

\* C6: when neither jurisdiction equals "US", "AU" or "SG" nor contains
\* "EU", _check_jurisdiction returns normally with no applicable regime.
C6_EmptyResult ==
    (/\ call.op = "check_jurisdiction"
     /\ C6_Unmatched(call.buyer_jurisdiction)
     /\ C6_Unmatched(call.seller_jurisdiction))
        => (pc = "done" /\ ret.applicable_regimes = << >>)

C6_Witness ==
    /\ Returned("check_jurisdiction")
    /\ call.buyer_jurisdiction = S_XX
    /\ call.seller_jurisdiction = S_YY
    /\ call.product_type = CreditDefaultSwap
    /\ ret.applicable_regimes = << >>

\* C7: for a regime without an enumerated field list, _generate_report
\* returns a report with an empty fields mapping, the given regime and the
\* status "generated".
C7_UnknownRegime ==
    (call.op = "generate_report" /\ call.regime \notin KnownRegimes)
        => /\ pc = "done"
           /\ DOMAIN ret.fields = {}
           /\ ret.regime = call.regime
           /\ ret.status = "generated"

C7_Witness ==
    /\ Returned("generate_report")
    /\ call.regime = MIFIR
    /\ DOMAIN ret.fields = {}

C8_Prefix(uti) == [i \in 1..(IF Len(uti) < 8 THEN Len(uti) ELSE 8) |-> uti[i]]

\* C8: report_id is "RPT-", the regime identifier, "-" and the first 8
\* characters of the UTI (the whole UTI when it is shorter).
C8_ReportId ==
    Returned("generate_report") =>
        ret.report_id = <<"R", "P", "T", "-">> \o call.regime \o <<"-">> \o C8_Prefix(call.uti)

C8_Witness ==
    /\ Returned("generate_report")
    /\ Len(call.uti) > 8
    /\ Len(ret.report_id) = 4 + Len(call.regime) + 1 + 8

\* ------------------------------------------- repeated report synthesis
\* The first _generate_report call of a session is recorded in first; the
\* same call is then repeated at later times, with other tool calls in
\* between.
DetGenerate ==
    /\ pc = "idle"
    /\ IF first = Null
       THEN \E r \in Regimes, t \in ReportTrades, u \in UTIs : GenerateReportCall(r, t, u)
       ELSE GenerateReportCall(first.call.regime, first.call.trade_data, first.call.uti)
    /\ first' = IF first = Null THEN [call |-> call', ret |-> ret'] ELSE first
    /\ UNCHANGED other

DetGenerateOther ==
    /\ pc = "idle"
    /\ first # Null
    /\ \E r \in Regimes \ {first.call.regime} :
          GenerateReportCall(r, first.call.trade_data, first.call.uti)
    /\ UNCHANGED first
    /\ UNCHANGED other

DetValidate ==
    /\ pc = "idle"
    /\ first # Null
    /\ ValidateSchemaCall(first.call.regime, first.ret)
    /\ UNCHANGED first
    /\ UNCHANGED other

DetCheckJurisdiction ==
    /\ pc = "idle"
    /\ first # Null
    /\ CheckJurisdictionCall(S_US, S_EU_GB, CreditDefaultSwap, S_USD)
    /\ UNCHANGED first
    /\ UNCHANGED other

NextDet ==
    \/ Tick
    \/ DetGenerate
    \/ DetGenerateOther
    \/ DetValidate
    \/ DetCheckJurisdiction
    \/ Return

SpecDet == Init /\ [][NextDet]_vars

TimeFields == {"ExecutionTimestamp", "EffectiveDate", "TradeDate"}

SameUpToTime(r1, r2) ==
    /\ DOMAIN r1.fields = DOMAIN r2.fields
    /\ r1.report_id = r2.report_id
    /\ r1.status = r2.status
    /\ \A f \in DOMAIN r1.fields \ TimeFields : r1.fields[f] = r2.fields[f]

SameCall(c1, c2) ==
    /\ c1.op = c2.op
    /\ c1.regime = c2.regime
    /\ c1.trade_data = c2.trade_data
    /\ c1.uti = c2.uti

\* C9: two _generate_report calls with the same regime, trade and UTI return
\* the same field names, report_id and status, and the same value for every
\* field but the current-time fields, whatever was called in between.
C9_Deterministic ==
    (/\ Returned("generate_report")
     /\ first # Null
     /\ SameCall(call, first.call))
        => SameUpToTime(ret, first.ret)

C9_Witness ==
    /\ Returned("generate_report")
    /\ first # Null
    /\ SameCall(call, first.call)
    /\ call.regime = CFTC_PART_43
    /\ ret # first.ret
    /\ SameUpToTime(ret, first.ret)

\* ------------------------------------------------- fallback on failure
C10_Uti(trade_data) ==
    IF "uti" \in DOMAIN trade_data THEN trade_data["uti"].str
    ELSE <<"U", "T", "I", "-", "U", "N", "K", "N", "O", "W", "N">>

C10_Field(trade_data, k) ==
    IF k \in DOMAIN trade_data THEN trade_data[k].str ELSE << >>

C10_Regimes(trade_data) ==
    check_jurisdiction(C10_Field(trade_data, "buyer_jurisdiction"),
                       C10_Field(trade_data, "seller_jurisdiction"),
                       C10_Field(trade_data, "product_type"),
                       C10_Field(trade_data, "currency")).applicable_regimes

\* C10: when generate_content raises, process_trade_for_reporting is never
\* stuck and returns the rule-based fallback result: reports_generated holds
\* one report per regime that _check_jurisdiction returns for the trade, in
\* the same order, each generated with the trade's uti, or "UTI-UNKNOWN"
\* when the trade has no uti key.
C10_Fallback ==
    ai = "raised" =>
        /\ pc \in {"fallback", "done"}
        /\ call.op = "process_trade_for_reporting"
        /\ pc = "fallback" => Len(results) <= Len(regimes)
        /\ pc = "done" =>
             LET expected == C10_Regimes(call.trade_data)
                 reports == ret.reports_generated
             IN  /\ ret.reasoning = "Rule-based fallback (AI unavailable)"
                 /\ Len(reports) = Len(expected)
                 /\ \A i \in 1..Len(reports) :
                       \E t \in 0..MaxTime :
                          reports[i] = generate_report(expected[i], call.trade_data,
                                                       C10_Uti(call.trade_data), t)

C10_Witness ==
    /\ ai = "raised"
    /\ pc = "done"
    /\ "uti" \notin DOMAIN call.trade_data
    /\ Len(ret.reports_generated) = 4
    /\ ret.reports_generated[1].fields["UTI"] = Str(S_UTI_UNKNOWN)
    /\ ret.reports_generated[1].fields["ExecutionTimestamp"] # Str(DateTimeIso(0))

\* ------------------------------------------------------- legend model
\* _load_legend_models: the fields each regime requires, keyed by the
\* identifier the agent uses for the regime.
legend_models ==
    (CFTC_PART_43 :> <<"UTI", "ExecutionTimestamp", "Price", "Notional", "AssetClass",
                       "ClearedIndicator">>)
    @@ (CFTC_PART_45 :> <<"UTI", "UPI", "ReportingCounterpartyLEI", "OtherCounterpartyLEI",
                          "EffectiveDate", "MaturityDate">>)
    @@ (EMIR :> <<"UTI", "LEI_1", "LEI_2", "TradeDate", "Notional", "Valuation",
                  "CollateralPosted">>)
    @@ (MIFIR :> <<"ISIN", "Quantity", "Price", "Venue", "BuyerLEI", "SellerLEI">>)

\* C11: the report _generate_report produces for a regime of the legend
\* model (CFTC Part 43, CFTC Part 45, EMIR, MiFIR) contains every field the
\* legend model lists as required for that regime.
C11_LegendFields ==
    (Returned("generate_report") /\ call.regime \in DOMAIN legend_models)
        => Elems(legend_models[call.regime]) \subseteq DOMAIN ret.fields

\* ------------------------------------------- TradeProcessingWorkflow
S_TRD_001 == <<"T", "R", "D", "-", "0", "0", "1">>
S_TRD_12345 == <<"T", "R", "D", "-", "1", "2", "3", "4", "5">>
S_UTI == <<"U", "T", "I", "-">>

\* Trades handed to execute(): the sample trade of the module (with "id")
\* and trades shaped like a TradeRequest of the API server (without).
WorkflowTrades ==
    {mk_trade(S_US, S_EU_GB, InterestRateSwap, S_SampleUTI, SampleKeys \ {"uti"})
        @@ [id |-> Str(S_TRD_12345)],
     mk_trade(S_US, S_EU_GB, CreditDefaultSwap, S_SampleUTI, RequestKeys),
     mk_trade(S_AU, S_SG, InterestRateSwap, S_SampleUTI, RequestKeys),
     mk_trade(S_XX, S_XX, InterestRateSwap, S_SampleUTI, RequestKeys)}

initial_state(trade_data) ==
    [trade_id |-> Get(trade_data, "id", Str(S_TRD_001)).str,
     trade_data |-> trade_data,
     uti |-> S_Empty,
     netting_set |-> "",
     validation_result |-> EmptyDict,
     processing_result |-> EmptyDict,
     regulatory_reports |-> << >>,
     confirmation_status |-> "",
     settlement_instructions |-> << >>,
     ledger_entries |-> << >>,
     margin_result |-> EmptyDict,
     current_step |-> "initialized",
     errors |-> << >>,
     completed_agents |-> << >>]

trading_agent_node(st) ==
    [st EXCEPT
        !.validation_result = [valid |-> Bool(TRUE),
                               state_transition |-> Str(<<"B", "O", "O", "K", "E", "D">>),
                               ai_reasoning |-> Str(<<"o", "k">>)],
        !.completed_agents = Append(@, "trading"),
        !.current_step = "trading_complete"]

processing_agent_node(st) ==
    [st EXCEPT
        !.uti = S_UTI \o st.trade_id,
        !.netting_set = "NS-DEFAULT",
        !.processing_result = [intercompany_detected |-> Bool(FALSE),
                               ai_reasoning |-> Str(<<"n", "o">>)],
        !.completed_agents = Append(@, "processing"),
        !.current_step = "processing_complete"]

\* result.get("reports_generated", []) of process_trade_for_reporting.
regulatory_agent_node(st, reports_generated) ==
    [st EXCEPT
        !.regulatory_reports = reports_generated,
        !.completed_agents = Append(@, "regulatory")]

confirmation_agent_node(st) ==
    [st EXCEPT
        !.confirmation_status = "SENT",
        !.completed_agents = Append(@, "confirmation")]

settlement_agent_node(st) ==
    [st EXCEPT
        !.settlement_instructions =
            <<[instruction_id |-> "SI-001", amount |-> 100000, status |-> "PENDING"]>>,
        !.completed_agents = Append(@, "settlement")]

ledger_agent_node(st) ==
    [st EXCEPT
        !.ledger_entries = <<[ledger |-> "TRADE", entry_id |-> "TL-001"],
                             [ledger |-> "POSITION", entry_id |-> "PL-001"],
                             [ledger |-> "CASH", entry_id |-> "CL-001"]>>,
        !.completed_agents = Append(@, "ledger")]

margin_agent_node(st) ==
    [st EXCEPT
        !.margin_result = [total_im |-> Num(500000), delta_margin |-> Num(300000),
                           vega_margin |-> Num(150000), curvature_margin |-> Num(50000)],
        !.completed_agents = Append(@, "margin")]

\* The reports of the rule-based fallback, generated at one clock reading.
fallback_reports(trade_data, clock) ==
    LET regs == fallback_jurisdiction(trade_data).applicable_regimes
    IN  [i \in 1..Len(regs) |->
            generate_report(regs[i], trade_data, fallback_uti(trade_data), clock)]

\* What process_trade_for_reporting may hand back as reports_generated: the
\* fallback reports, or no result when the model response has no tool call.
reports_generated_outcomes(trade_data, clock) ==
    {fallback_reports(trade_data, clock), << >>}

node_update(n, st, reports_generated) ==
    IF n = "trading" THEN trading_agent_node(st)
    ELSE IF n = "processing" THEN processing_agent_node(st)
    ELSE IF n = "regulatory" THEN regulatory_agent_node(st, reports_generated)
    ELSE IF n = "confirmation" THEN confirmation_agent_node(st)
    ELSE IF n = "settlement" THEN settlement_agent_node(st)
    ELSE IF n = "ledger" THEN ledger_agent_node(st)
    ELSE margin_agent_node(st)

\* state["validation_result"].get("valid") taken as a condition.
validation_valid(st) == Get(st.validation_result, "valid", None) = Bool(TRUE)

should_proceed_to_functional_agents(st) ==
    IF validation_valid(st) THEN "proceed" ELSE "reject"

\* The graph of _build_workflow; END is the empty set of successors.
entry_point == "trading"

\* Variant: the functional agents also hang off the trading node.
edges_fanout(n) ==
    IF n = "trading" THEN {"processing"} \cup FunctionalAgents ELSE {}

edges(n) == IF n = "trading" THEN {"processing"} ELSE {}

path_map == [proceed |-> FunctionalAgents, reject |-> {}]

conditional_edges(n, st) ==
    IF n = "processing" THEN path_map[should_proceed_to_functional_agents(st)] ELSE {}

successors(n, st) == edges(n) \cup conditional_edges(n, st)

\* execute(): the initial state is built and ainvoke starts at the entry
\* point.
WfExecute ==
    /\ wf_pc = "idle"
    /\ \E t \in WorkflowTrades : wstate' = initial_state(t)
    /\ scheduled' = {entry_point}
    /\ wf_pc' = "running"
    /\ UNCHANGED <<pc, now, call, ret, work, first, node, srvvars>>

\* A triggered node starts; the nodes triggered together run concurrently.
WfStartNode ==
    /\ wf_pc = "running"
    /\ \E n \in scheduled :
          /\ node[n] = "pending"
          /\ node' = [node EXCEPT ![n] = "running"]
    /\ UNCHANGED <<pc, now, call, ret, work, first, wf_pc, wstate, scheduled, srvvars>>

\* A node completes: its update reaches the shared state and its outgoing
\* edges, the conditional ones evaluated on that state, trigger successors.
WfFinishNode ==
    /\ wf_pc = "running"
    /\ \E n \in scheduled :
          /\ node[n] = "running"
          /\ \E reports \in reports_generated_outcomes(wstate.trade_data, now) :
                wstate' = node_update(n, wstate, reports)
          /\ node' = [node EXCEPT ![n] = "done"]
          /\ scheduled' = scheduled \cup successors(n, wstate')
    /\ UNCHANGED <<pc, now, call, ret, work, first, wf_pc, srvvars>>

\* No triggered node is left to run: ainvoke returns the final state.
WfEnd ==
    /\ wf_pc = "running"
    /\ \A n \in scheduled : node[n] = "done"
    /\ wf_pc' = "done"
    /\ UNCHANGED <<pc, now, call, ret, work, first, wstate, node, scheduled, srvvars>>

\* The caller takes the final state; the next execute() starts afresh.
WfReturn ==
    /\ wf_pc = "done"
    /\ wf_pc' = "idle"
    /\ wstate' = Null
    /\ node' = [n \in Nodes |-> "pending"]
    /\ scheduled' = {}
    /\ UNCHANGED <<pc, now, call, ret, work, first, srvvars>>

NextWorkflow ==
    \/ Tick
    \/ WfExecute
    \/ WfStartNode
    \/ WfFinishNode
    \/ WfEnd
    \/ WfReturn

SpecWorkflow == Init /\ [][NextWorkflow]_vars

Started(n) == node[n] # "pending"

\* C12: the agents run in the order trading, processing, then the five
\* functional agents: processing starts only after trading has completed,
\* a functional agent starts only after processing has completed and only
\* when validation_result.valid is true, and a workflow whose validation is
\* not valid ends after processing without any functional agent having run.
C12_AgentOrder ==
    wf_pc # "idle" =>
        /\ Started("processing") => node["trading"] = "done"
        /\ \A f \in FunctionalAgents :
              Started(f) => (node["processing"] = "done" /\ validation_valid(wstate))
        /\ \A i \in 1..Len(wstate.completed_agents) :
              /\ i = 1 <=> wstate.completed_agents[i] = "trading"
              /\ i = 2 <=> wstate.completed_agents[i] = "processing"
        /\ (wf_pc = "done" /\ validation_valid(wstate))
              => Elems(wstate.completed_agents) = Nodes
        /\ (wf_pc = "done" /\ ~ validation_valid(wstate))
              => wstate.completed_agents = <<"trading", "processing">>

C12_Witness ==
    /\ wf_pc = "done"
    /\ Len(wstate.completed_agents) = 7
    /\ wstate.completed_agents[3] = "margin"
    /\ wstate.completed_agents[7] = "regulatory"
    /\ Len(wstate.regulatory_reports) = 4

\* ------------------------------------------------------- API server
\* list.remove(x): drops the first occurrence of x.
list_remove(list, x) ==
    LET at == CHOOSE i \in 1..Len(list) : list[i] = x /\ \A j \in 1..(i - 1) : list[j] # x
    IN  SubSeq(list, 1, at - 1) \o SubSeq(list, at + 1, Len(list))

\* websocket_endpoint up to its first receive_text: the connection is
\* accepted and appended.  The echo loop that follows changes no state of
\* the server.
WsConnect ==
    /\ \E c \in Clients :
          /\ ws[c] = "new"
          /\ ws' = [ws EXCEPT ![c] = "open"]
          /\ active_connections' = Append(active_connections, c)
    /\ UNCHANGED <<pc, now, call, ret, work, first, wfvars, bpc, iter, at_start, delivered>>

\* The peer goes away; the handler has not observed it yet.
WsClientDisconnect ==
    /\ \E c \in Clients :
          /\ ws[c] = "open"
          /\ ws' = [ws EXCEPT ![c] = "closed"]
    /\ UNCHANGED <<pc, now, call, ret, work, first, wfvars, active_connections, bpc, iter,
                   at_start, delivered>>

\* receive_text raises WebSocketDisconnect in the handler: the except
\* clause removes the connection from the list.
WsHandlerDisconnect ==
    /\ \E c \in Clients :
          /\ ws[c] = "closed"
          /\ ws' = [ws EXCEPT ![c] = "removed"]
          /\ active_connections' = list_remove(active_connections, c)
    /\ UNCHANGED <<pc, now, call, ret, work, first, wfvars, bpc, iter, at_start, delivered>>

\* execute_workflow is entered and awaits workflow.execute.
ExecuteWorkflow ==
    /\ bpc = "idle"
    /\ bpc' = "executing"
    /\ UNCHANGED <<pc, now, call, ret, work, first, wfvars, active_connections, ws, iter,
                   at_start, delivered>>

\* workflow.execute has returned; broadcast_update starts iterating the
\* list.
BroadcastStart ==
    /\ bpc = "executing"
    /\ bpc' = "broadcasting"
    /\ iter' = 0
    /\ at_start' = {c \in Clients : ws[c] = "open"}
    /\ delivered' = [c \in Clients |-> 0]
    /\ UNCHANGED <<pc, now, call, ret, work, first, wfvars, active_connections, ws>>

\* One iteration of the for loop: the list iterator yields the element at
\* its index and advances, and send_text is awaited.  Sending on a
\* connection whose peer is gone either raises, which ends execute_workflow
\* with an error, or is dropped, depending on the transport.
BroadcastSend ==
    /\ bpc = "broadcasting"
    /\ iter < Len(active_connections)
    /\ iter' = iter + 1
    /\ LET c == active_connections[iter + 1] IN
         IF ws[c] = "open"
         THEN /\ delivered' = [delivered EXCEPT ![c] = @ + 1]
              /\ UNCHANGED bpc
         ELSE /\ UNCHANGED delivered
              /\ bpc' \in {"broadcasting", "failed"}
    /\ UNCHANGED <<pc, now, call, ret, work, first, wfvars, active_connections, ws, at_start>>

\* The iterator is exhausted: execute_workflow returns its success body.
BroadcastEnd ==
    /\ bpc = "broadcasting"
    /\ iter >= Len(active_connections)
    /\ bpc' = "done"
    /\ UNCHANGED <<pc, now, call, ret, work, first, wfvars, active_connections, ws, iter,
                   at_start, delivered>>

\* The response (or the error) has gone out; the next request may come.
RequestReturn ==
    /\ bpc \in {"done", "failed"}
    /\ bpc' = "idle"
    /\ iter' = 0
    /\ at_start' = {}
    /\ delivered' = [c \in Clients |-> 0]
    /\ UNCHANGED <<pc, now, call, ret, work, first, wfvars, active_connections, ws>>

NextServer ==
    \/ WsConnect
    \/ WsClientDisconnect
    \/ WsHandlerDisconnect
    \/ ExecuteWorkflow
    \/ BroadcastStart
    \/ BroadcastSend
    \/ BroadcastEnd
    \/ RequestReturn

SpecServer == Init /\ [][NextServer]_vars

\* C13: every client accepted before a broadcast starts and still connected
\* when it ends has received the message exactly once, and a client
\* disconnecting during the broadcast neither makes another connected
\* client miss the message nor makes execute_workflow fail.
C13_BroadcastAll ==
    /\ bpc # "failed"
    /\ bpc = "done" => \A c \in at_start : ws[c] = "open" => delivered[c] = 1

\* The delivery half of C13 alone: it fails without any send raising.
C13_NoClientMissed ==
    bpc = "done" => \A c \in at_start : ws[c] = "open" => delivered[c] = 1

====
